---------------------------- MODULE Spec2Model ----------------------------
(***************************************************************************)
(* Tile generation of ModelPlugin (src/src/renderer/editor/plugins.cpp):   *)
(* createTile routes a request to the texture-tile worker thread or to    *)
(* the staged render pipeline that update() advances once per frame.      *)
(***************************************************************************)
EXTENDS Integers, Sequences, FiniteSets, TLC

(***************************************************************************)
(* Bounds of the model and constants of the program.                      *)
(***************************************************************************)
\* Queue<Resource*, 8> queue;
N == 8
\* accepted Model/Prefab requests in one run (N + k, k >= 1)
MaxReq == 9
\* accepted Model/Prefab requests in one run of the fair specification
MaxLiveReq == 3
\* accepted Prefab requests in one run
MaxPrefabReq == 2
\* Texture requests in one run
MaxImages == 3
\* accepted Model/Prefab requests and Texture requests in one run of the
\* specification of the whole plugin
MaxRouterReq == 1
MaxRouterImages == 1
\* accepted Model requests in one run of the specification of the overflow list
\* (N + k, k >= 2)
MaxOverflowReq == 11
\* accepted Model requests, and renders issued, in one run of the specification
\* with the preview
MaxPreviewReq == 2
MaxPreviewRenders == 3
MaxSharedReq == 3
\* entries waiting in the resize queue under an endless stream of Texture requests
MaxQueued == 2
\* the history counters images and processed stop counting here
MaxCount == MaxImages + 2

(***************************************************************************)
(* Assets the editor asks tiles for: a path and the resource type the     *)
(* asset browser derives from its extension.                              *)
(***************************************************************************)
ModelAssets == { [path |-> "a.msh", type |-> "Model"] }
PrefabAssets == { [path |-> "b.fab", type |-> "Prefab"] }
TextureAssets == { [path |-> "t.dds", type |-> "Texture"],
                   [path |-> "u.tga", type |-> "Texture"] }
CopyAssets == { [path |-> "m.mat", type |-> "Material"],
                [path |-> "s.shd", type |-> "Shader"] }
OtherAssets == { [path |-> "x.lua", type |-> "Script"] }
RenderAssets == ModelAssets \cup PrefabAssets
\* the model of the prefab's model instance, an asset of the browser itself
SharedModelAssets == { [path |-> "c.msh", type |-> "Model"] }

\* the model a prefab's model instance refers to
PrefabModel(path) == "c.msh"
\* resources the resource manager hands out in this model
ResPaths == {"a.msh", "b.fab", "c.msh"}
ImagePaths == {a.path : a \in TextureAssets}

\* PathUtils::hasExtension(path, "fab") / resource->getType()
IsPrefabPath(path) == path = "b.fab"
\* PathUtils::hasExtension(tile, "dds")
IsDDSPath(path) == path = "t.dds"

\* crc32(path) / Path::getHash(): the digest that names the cache file
Hash(path) ==
    CASE path = "a.msh" -> "h_a"
      [] path = "b.fab" -> "h_b"
      [] path = "c.msh" -> "h_c"
      [] path = "t.dds" -> "h_t"
      [] path = "u.tga" -> "h_u"
      [] path = "m.mat" -> "h_m"
      [] path = "s.shd" -> "h_s"
      [] OTHER -> "h_x"
\* "unset": what the uninitialised m_tile.path_hash holds
Hashes == {"h_a", "h_b", "h_c", "h_t", "h_u", "h_m", "h_s", "h_x", "unset"}

VARIABLES
    \* ---- m_tile (TileData)
    queue,            \* admission ring: Seq of [path, req]
    paths,            \* overflow list: Seq of [path, req]
    frame_countdown,  \* -1 .. 2
    path_hash,        \* hash of the tile being read back ("unset" at start)
    m_entity_in_fly,  \* "INVALID_ENTITY" or the model path of the prefab entity
    \* ---- environment of the pipeline
    resources,        \* path -> [state, ref]
    on_loaded,        \* model path -> number of bound renderPrefabSecondStage callbacks
    renderer_ok,      \* render scene and renderer plugin are available
    prefab_shape,     \* what instantiating the prefab asset yields
    live_entities,    \* entities of the tile universe created and not destroyed
    live_textures,    \* read-back textures created and not destroyed
    cache,            \* hash -> content of .lumix/asset_tiles/<hash>.dds
    assert_fired,     \* ASSERT(!m_tile.queue.full()) failed
    createTile_ret,   \* what the last createTile call returned: "true", "false"
    \* ---- history of the pipeline
    writes,           \* writes[r]: saveAsDDS calls made for the tile of accepted request r
    held,             \* requests whose handle loaded at admission is not yet unloaded
    hash_req,         \* request for which path_hash was set
    dropped,          \* requests removed from the ring because their resource failed
    render_log,       \* requests in the order their render was issued (0: no request)
    ticks,            \* update() calls completed since the pending read-back was issued
    req_paths,        \* req_paths[r]: the in_path of accepted request r
    \* ---- m_texture_tile_creator (TextureTileCreator) and its task
    shutdown,
    lock,             \* "free", "main" or "task"
    semaphore,
    tiles,            \* Seq of image paths
    task_pc,          \* position of createTextureTileTask
    tile,             \* the worker's local copy of the popped path
    main_pc,          \* position of the main thread inside createTile / ~ModelPlugin
    in_path,          \* argument of the createTile call in progress
    images,           \* Texture requests submitted so far (counted up to MaxCount)
    prefab_reqs,      \* Prefab requests accepted so far
    processed,        \* image requests the worker has finished (counted up to MaxCount)
    wakeups           \* returns of semaphore.wait() in the worker (counted up to MaxCount)

tileVars == <<queue, paths, frame_countdown, path_hash, m_entity_in_fly>>
envVars == <<resources, on_loaded, renderer_ok, prefab_shape, live_entities,
             live_textures, assert_fired>>
histVars == <<writes, held, hash_req, dropped, render_log, ticks, req_paths>>
pipeVars == <<tileVars, envVars, histVars>>
creatorVars == <<shutdown, lock, semaphore, tiles>>
taskVars == <<task_pc, tile, processed, wakeups>>
mainVars == <<main_pc, in_path, images, prefab_reqs>>
vars == <<pipeVars, cache, createTile_ret, creatorVars, taskVars, mainVars>>

(***************************************************************************)
(* Resource manager: load() adds a reference, unload() drops one; a       *)
(* resource nobody references is unloaded and becomes empty again.        *)
(***************************************************************************)
Load(res, p) == [res EXCEPT ![p].ref = @ + 1]

Unload(res, p) ==
    IF res[p].ref = 1
    THEN [res EXCEPT ![p] = [state |-> "empty", ref |-> 0]]
    ELSE [res EXCEPT ![p].ref = @ - 1]

ResIsReady(res, p) == res[p].state = "ready"
ResIsFailure(res, p) == res[p].state = "failure"

(***************************************************************************)
(* The pipeline's state as one record, so that handlers compose.          *)
(***************************************************************************)
TileState ==
    [queue |-> queue, paths |-> paths, frame_countdown |-> frame_countdown,
     path_hash |-> path_hash, m_entity_in_fly |-> m_entity_in_fly,
     resources |-> resources, on_loaded |-> on_loaded,
     live_entities |-> live_entities, live_textures |-> live_textures,
     assert_fired |-> assert_fired, writes |-> writes, held |-> held,
     hash_req |-> hash_req, dropped |-> dropped, render_log |-> render_log,
     ticks |-> ticks, req_paths |-> req_paths, saved_tiles |-> {}]

SetTileState(s) ==
    /\ queue' = s.queue
    /\ paths' = s.paths
    /\ frame_countdown' = s.frame_countdown
    /\ path_hash' = s.path_hash
    /\ m_entity_in_fly' = s.m_entity_in_fly
    /\ resources' = s.resources
    /\ on_loaded' = s.on_loaded
    /\ live_entities' = s.live_entities
    /\ live_textures' = s.live_textures
    /\ assert_fired' = s.assert_fired
    /\ writes' = s.writes
    /\ held' = s.held
    /\ hash_req' = s.hash_req
    /\ dropped' = s.dropped
    /\ render_log' = s.render_log
    /\ ticks' = s.ticks
    /\ req_paths' = s.req_paths
    /\ UNCHANGED <<renderer_ok, prefab_shape>>

\* Queue<Resource*, 8>::full()
QueueFull(q) == Len(q) >= N

\* void pushTileQueue(const Path& path)
pushTileQueue(s, p, r) ==
    [s EXCEPT !.assert_fired = @ \/ QueueFull(s.queue),
              !.resources = Load(@, p),
              !.queue = Append(@, [path |-> p, req |-> r]),
              !.held = @ \cup {r}]

\* popTileQueue without the refill from the overflow list
popTileQueue_noRefill(s) == [s EXCEPT !.queue = Tail(@)]

\* popTileQueue admitting the overflow entry at the front of the ring
popTileQueue_refillFront(s) ==
    LET s1 == [s EXCEPT !.queue = Tail(@)]
        n == Len(s1.paths)
    IN IF n = 0 THEN s1
       ELSE [s1 EXCEPT !.paths = SubSeq(@, 1, n - 1),
                       !.assert_fired = @ \/ QueueFull(s1.queue),
                       !.resources = Load(@, s1.paths[n].path),
                       !.queue = <<s1.paths[n]>> \o @,
                       !.held = @ \cup {s1.paths[n].req}]

\* popTileQueue taking the newest entry of the ring instead of the front
popTileQueue_back(s) ==
    LET s1 == [s EXCEPT !.queue = SubSeq(@, 1, Len(@) - 1)]
        n == Len(s1.paths)
    IN IF n = 0 THEN s1
       ELSE pushTileQueue([s1 EXCEPT !.paths = SubSeq(@, 1, n - 1)],
                          s1.paths[n].path, s1.paths[n].req)

\* void popTileQueue()
popTileQueue(s) ==
    LET s1 == [s EXCEPT !.queue = Tail(@)]
        n == Len(s1.paths)
    IN IF n = 0 THEN s1
       ELSE pushTileQueue([s1 EXCEPT !.paths = SubSeq(@, 1, n - 1)],
                          s1.paths[n].path, s1.paths[n].req)

\* Universe::destroyEntity(m_tile.m_entity_in_fly): the model instance of the
\* entity drops its reference to the model
DestroyEntityInFly(s) ==
    IF s.m_entity_in_fly = "INVALID_ENTITY" THEN s
    ELSE [s EXCEPT !.live_entities = @ - 1,
                   !.resources = Unload(@, s.m_entity_in_fly)]

\* void renderPrefabSecondStage(old_state, new_state, Resource& resource)
renderPrefabSecondStage(s, m) ==
    IF ~renderer_ok THEN s
    ELSE IF ~ResIsReady(s.resources, m) THEN s
    ELSE LET s1 == [s EXCEPT !.live_textures = @ + 1,
                             !.render_log = Append(@,
                                 IF s.m_entity_in_fly = "INVALID_ENTITY"
                                 THEN 0 ELSE s.hash_req)]
             s2 == DestroyEntityInFly(s1)
         IN [s2 EXCEPT !.frame_countdown = 2,
                       !.ticks = 0,
                       !.m_entity_in_fly = "INVALID_ENTITY"]

\* Resource::onLoaded<ModelPlugin, &ModelPlugin::renderPrefabSecondStage>(this):
\* binds the callback and calls it at once when the resource is ready
onLoaded(s, m) ==
    LET s1 == [s EXCEPT !.on_loaded[m] = @ + 1]
    IN IF ResIsReady(s1.resources, m) THEN renderPrefabSecondStage(s1, m) ELSE s1

\* void renderTile(PrefabResource* prefab)
renderTilePrefab(s, p, r) ==
    IF ~renderer_ok THEN s
    ELSE IF prefab_shape = "invalid" THEN s
    ELSE IF prefab_shape \in {"no_component", "no_model"}
         THEN [s EXCEPT !.live_entities = @ + 1]
    ELSE LET m == PrefabModel(p)
             s1 == [s EXCEPT !.live_entities = @ + 1,
                             !.resources = Unload(Load(@, m), p),
                             !.path_hash = Hash(p),
                             !.hash_req = r,
                             !.held = @ \ {r},
                             !.m_entity_in_fly = m]
         IN onLoaded(s1, m)

\* void renderTile(Model* model, Matrix* in_mtx)
renderTileModel(s, p, r) ==
    IF ~renderer_ok THEN s
    ELSE [s EXCEPT !.live_textures = @ + 1,
                   !.render_log = Append(@, r),
                   !.frame_countdown = 2,
                   !.ticks = 0,
                   !.path_hash = Hash(p),
                   !.hash_req = r,
                   !.resources = Unload(@, p),
                   !.held = @ \ {r}]

\* updateCountdown finalizing one call early (countdown compared with 0 after the
\* decrement)
updateCountdown_early(s, saved) ==
    LET c == s.frame_countdown - 1
    IN IF c = 0
       THEN [s EXCEPT !.frame_countdown = -1,
                      !.saved_tiles = IF saved THEN @ \cup {s.path_hash} ELSE @,
                      !.live_textures = @ - 1,
                      !.writes = IF s.hash_req \in DOMAIN s.writes
                                 THEN [@ EXCEPT ![s.hash_req] = @ + 1] ELSE @]
       ELSE [s EXCEPT !.frame_countdown = c]

\* the frame_countdown >= 0 branch of update(); saved: saveAsDDS succeeds.
\* saved_tiles collects the hashes whose file saveAsDDS wrote in this call.
updateCountdown(s, saved) ==
    LET c == s.frame_countdown - 1
    IN IF c = -1
       THEN [s EXCEPT !.frame_countdown = c,
                      !.saved_tiles = IF saved THEN @ \cup {s.path_hash} ELSE @,
                      !.live_textures = @ - 1,
                      !.writes = IF s.hash_req \in DOMAIN s.writes
                                 THEN [@ EXCEPT ![s.hash_req] = @ + 1] ELSE @]
       ELSE [s EXCEPT !.frame_countdown = c]

\* updateQueue without the m_entity_in_fly.isValid() early return
updateQueue_noEntityCheck(s) ==
    IF s.queue = <<>> THEN s
    ELSE LET front == Head(s.queue)
         IN IF ResIsFailure(s.resources, front.path)
            THEN popTileQueue([s EXCEPT !.dropped = @ \cup {front.req}])
            ELSE IF ~ResIsReady(s.resources, front.path) THEN s
            ELSE IF IsPrefabPath(front.path)
                 THEN renderTilePrefab(popTileQueue(s), front.path, front.req)
                 ELSE renderTileModel(popTileQueue(s), front.path, front.req)

\* updateQueue rendering a front whose resource failed to load
updateQueue_renderFailed(s) ==
    IF s.m_entity_in_fly # "INVALID_ENTITY" THEN s
    ELSE IF s.queue = <<>> THEN s
    ELSE LET front == Head(s.queue)
         IN IF ~ResIsReady(s.resources, front.path) /\ ~ResIsFailure(s.resources, front.path)
            THEN s
            ELSE IF IsPrefabPath(front.path)
                 THEN renderTilePrefab(popTileQueue(s), front.path, front.req)
                 ELSE renderTileModel(popTileQueue(s), front.path, front.req)

\* updateQueue popping a front whose resource is still loading
updateQueue_popLoading(s) ==
    IF s.m_entity_in_fly # "INVALID_ENTITY" THEN s
    ELSE IF s.queue = <<>> THEN s
    ELSE LET front == Head(s.queue)
         IN IF ~ResIsReady(s.resources, front.path)
            THEN popTileQueue([s EXCEPT !.dropped = @ \cup {front.req}])
            ELSE IF IsPrefabPath(front.path)
                 THEN renderTilePrefab(popTileQueue(s), front.path, front.req)
                 ELSE renderTileModel(popTileQueue(s), front.path, front.req)

\* the rest of update(): examine the front of the ring
updateQueue(s) ==
    IF s.m_entity_in_fly # "INVALID_ENTITY" THEN s
    ELSE IF s.queue = <<>> THEN s
    ELSE LET front == Head(s.queue)
         IN IF ResIsFailure(s.resources, front.path)
            THEN popTileQueue([s EXCEPT !.dropped = @ \cup {front.req}])
            ELSE IF ~ResIsReady(s.resources, front.path) THEN s
            ELSE IF IsPrefabPath(front.path)
                 THEN renderTilePrefab(popTileQueue(s), front.path, front.req)
                 ELSE renderTileModel(popTileQueue(s), front.path, front.req)

\* update() going on to the front of the ring right after a finalize
update_finalizeThenNext(s, saved) ==
    IF s.frame_countdown >= 0
    THEN LET s1 == updateCountdown(s, saved)
             s2 == [s1 EXCEPT !.ticks = IF s1.frame_countdown >= 0 THEN @ + 1 ELSE 0]
         IN IF s2.frame_countdown = -1 THEN updateQueue(s2) ELSE s2
    ELSE updateQueue(s)

\* update() without the return that ends the countdown branch
update_noReturn(s, saved) ==
    IF s.frame_countdown >= 0
    THEN LET s1 == updateCountdown(s, saved)
             s2 == [s1 EXCEPT !.ticks = IF s1.frame_countdown >= 0 THEN @ + 1 ELSE 0]
         IN updateQueue(s2)
    ELSE updateQueue(s)

\* update() as a whole; ticks counts the calls completed while a read-back is pending
update(s, saved) ==
    IF s.frame_countdown >= 0
    THEN LET s1 == updateCountdown(s, saved)
         IN [s1 EXCEPT !.ticks = IF s1.frame_countdown >= 0 THEN @ + 1 ELSE 0]
    ELSE updateQueue(s)

(***************************************************************************)
(* Initial state: after ModelPlugin's constructor.                        *)
(***************************************************************************)
Init ==
    /\ queue = <<>>
    /\ paths = <<>>
    /\ frame_countdown = -1
    /\ path_hash = "unset"
    /\ m_entity_in_fly = "INVALID_ENTITY"
    /\ resources = [p \in ResPaths |-> [state |-> "empty", ref |-> 0]]
    /\ on_loaded = [p \in ResPaths |-> 0]
    /\ renderer_ok \in BOOLEAN
    /\ prefab_shape \in {"invalid", "no_component", "no_model", "model"}
    /\ renderer_ok \/ prefab_shape = "model"
    /\ live_entities = 0
    /\ live_textures = 0
    /\ cache = [h \in Hashes |-> "none"]
    /\ assert_fired = FALSE
    /\ createTile_ret = "none"
    /\ writes = <<>>
    /\ held = {}
    /\ hash_req = 0
    /\ dropped = {}
    /\ render_log = <<>>
    /\ ticks = 0
    /\ req_paths = <<>>
    /\ shutdown = FALSE
    /\ lock = "free"
    /\ semaphore = 0
    /\ tiles = <<>>
    /\ task_pc = "loop"
    /\ tile = "none"
    /\ main_pc = "idle"
    /\ in_path = "none"
    /\ images = 0
    /\ prefab_reqs = 0
    /\ processed = 0
    /\ wakeups = 0

\* the renderer plugin is loaded and the prefab asset holds a model instance
NominalInit == Init /\ renderer_ok /\ prefab_shape = "model"

(***************************************************************************)
(* Main thread: createTile and update.                                    *)
(***************************************************************************)
\* type == Texture::TYPE: MT::SpinLock lock(m_texture_tile_creator.lock)
CreateTileTexture(a) ==
    /\ lock = "free"
    /\ lock' = "main"
    /\ main_pc' = "emplace"
    /\ in_path' = a.path
    /\ images' = IF images < MaxCount THEN images + 1 ELSE images
    /\ UNCHANGED <<pipeVars, cache, createTile_ret, shutdown, semaphore, tiles, taskVars,
                   prefab_reqs>>

\* m_texture_tile_creator.tiles.emplace(in_path)
CreateTileEmplace ==
    /\ main_pc = "emplace"
    /\ tiles' = Append(tiles, in_path)
    /\ main_pc' = "signal"
    /\ UNCHANGED <<pipeVars, cache, createTile_ret, shutdown, lock, semaphore,
                   taskVars, in_path, images, prefab_reqs>>

\* createTile returning without the signal
CreateTileSignal_missing ==
    /\ main_pc = "signal"
    /\ main_pc' = "return"
    /\ UNCHANGED <<pipeVars, cache, createTile_ret, shutdown, lock, semaphore, tiles,
                   taskVars, in_path, images, prefab_reqs>>

\* m_texture_tile_creator.semaphore.signal()
CreateTileSignal ==
    /\ main_pc = "signal"
    /\ semaphore' = semaphore + 1
    /\ main_pc' = "return"
    /\ UNCHANGED <<pipeVars, cache, createTile_ret, shutdown, lock, tiles,
                   taskVars, in_path, images, prefab_reqs>>

\* return true; the SpinLock's destructor releases the lock
CreateTileReturn ==
    /\ main_pc = "return"
    /\ lock' = "free"
    /\ createTile_ret' = "true"
    /\ main_pc' = "idle"
    /\ in_path' = "none"
    /\ UNCHANGED <<pipeVars, cache, shutdown, semaphore, tiles, taskVars, images,
                   prefab_reqs>>

\* Material or Shader: return copyFile("models/editor/tile_*.dds", out_path)
CreateTileCopy(a, copied) ==
    /\ cache' = IF copied THEN [cache EXCEPT ![Hash(a.path)] = "placeholder"] ELSE cache
    /\ createTile_ret' = IF copied THEN "true" ELSE "false"
    /\ UNCHANGED <<pipeVars, creatorVars, taskVars, mainVars>>

\* if (type != Model::TYPE && type != PrefabResource::TYPE) return false;
CreateTileReject ==
    /\ createTile_ret' = "false"
    /\ UNCHANGED <<pipeVars, cache, creatorVars, taskVars, mainVars>>

\* createTileRender pushing without the queue.full() test
createTileRender_noFullCheck(s, p) ==
    pushTileQueue([s EXCEPT !.writes = Append(@, 0), !.req_paths = Append(@, p)],
                  p, Len(s.writes) + 1)

\* createTileRender forgetting the request when the ring is full
createTileRender_dropWhenFull(s, p) ==
    LET s1 == [s EXCEPT !.writes = Append(@, 0), !.req_paths = Append(@, p)]
    IN IF ~QueueFull(s.queue) THEN pushTileQueue(s1, p, Len(s.writes) + 1) ELSE s1

\* createTileRender taking the ring for full one entry early
createTileRender_fullEarly(s, p) ==
    LET r == Len(s.writes) + 1
        s1 == [s EXCEPT !.writes = Append(@, 0), !.req_paths = Append(@, p)]
    IN IF Len(s.queue) < N - 1
       THEN pushTileQueue(s1, p, r)
       ELSE [s1 EXCEPT !.paths = Append(@, [path |-> p, req |-> r])]

\* a Model or a Prefab: the request becomes number Len(writes) + 1
createTileRender(s, p) ==
    LET r == Len(s.writes) + 1
        s1 == [s EXCEPT !.writes = Append(@, 0), !.req_paths = Append(@, p)]
    IN IF ~QueueFull(s.queue)
       THEN pushTileQueue(s1, p, r)
       ELSE [s1 EXCEPT !.paths = Append(@, [path |-> p, req |-> r])]

CreateTileRender(a) ==
    /\ SetTileState(createTileRender(TileState, a.path))
    /\ createTile_ret' = "true"
    /\ prefab_reqs' = IF a.type = "Prefab" THEN prefab_reqs + 1 ELSE prefab_reqs
    /\ UNCHANGED <<cache, creatorVars, taskVars, main_pc, in_path, images>>

\* createTile without the line that rejects the other resource types
CreateTile_noReject(a) ==
    /\ main_pc = "idle"
    /\ IF a.type = "Texture" THEN CreateTileTexture(a)
       ELSE IF a.type \in {"Material", "Shader"}
            THEN \E copied \in BOOLEAN : CreateTileCopy(a, copied)
       ELSE CreateTileRender(a)

\* bool createTile(const char* in_path, const char* out_path, ResourceType type)
CreateTile(a) ==
    /\ main_pc = "idle"
    /\ IF a.type = "Texture" THEN CreateTileTexture(a)
       ELSE IF a.type \in {"Material", "Shader"}
            THEN \E copied \in BOOLEAN : CreateTileCopy(a, copied)
       ELSE IF a.type # "Model" /\ a.type # "Prefab" THEN CreateTileReject
       ELSE CreateTileRender(a)

\* void update(); saved: the saveAsDDS call of this update, if any, succeeds
Update(saved) ==
    /\ main_pc = "idle"
    /\ LET s == update(TileState, saved)
       IN /\ SetTileState(s)
          /\ cache' = [h \in Hashes |-> IF h \in s.saved_tiles THEN "tile" ELSE cache[h]]
    /\ UNCHANGED <<createTile_ret, creatorVars, taskVars, mainVars>>

\* showPreview, "Save preview": model.getResourceManager().load(model);
\* renderTile(&model, &mtx). The preview shows only a model that is ready.
SavePreview(p) ==
    /\ main_pc = "idle"
    /\ ResIsReady(resources, p)
    /\ SetTileState(renderTileModel([TileState EXCEPT !.resources = Load(@, p)], p, 0))
    /\ UNCHANGED <<cache, createTile_ret, creatorVars, taskVars, mainVars>>

(***************************************************************************)
(* Resource manager finishing a load: the resource becomes ready or       *)
(* failed and every callback bound to it runs.                            *)
(***************************************************************************)
RECURSIVE RunCallbacks(_, _, _)
RunCallbacks(s, m, n) ==
    IF n = 0 THEN s ELSE RunCallbacks(renderPrefabSecondStage(s, m), m, n - 1)

ResourceLoaded(p, state) ==
    /\ main_pc = "idle"
    /\ resources[p].state = "empty"
    /\ resources[p].ref > 0
    /\ LET s1 == [TileState EXCEPT !.resources[p].state = state]
       IN SetTileState(RunCallbacks(s1, p, on_loaded[p]))
    /\ UNCHANGED <<cache, createTile_ret, creatorVars, taskVars, mainVars>>

(***************************************************************************)
(* The worker thread: createTextureTileTask.                              *)
(***************************************************************************)
\* while (!m_texture_tile_creator.shutdown)
TaskLoop ==
    /\ task_pc = "loop"
    /\ task_pc' = IF shutdown THEN "done" ELSE "wait"
    /\ UNCHANGED <<pipeVars, cache, createTile_ret, creatorVars, tile, processed, wakeups, mainVars>>

\* semaphore.wait() returning without taking a unit of the count
TaskWait_noDecrement ==
    /\ task_pc = "wait"
    /\ semaphore > 0
    /\ task_pc' = "woken"
    /\ wakeups' = IF wakeups < MaxCount THEN wakeups + 1 ELSE wakeups
    /\ UNCHANGED <<pipeVars, cache, createTile_ret, creatorVars, tile, processed, mainVars>>

\* m_texture_tile_creator.semaphore.wait()
TaskWait ==
    /\ task_pc = "wait"
    /\ semaphore > 0
    /\ semaphore' = semaphore - 1
    /\ task_pc' = "woken"
    /\ wakeups' = IF wakeups < MaxCount THEN wakeups + 1 ELSE wakeups
    /\ UNCHANGED <<pipeVars, cache, createTile_ret, shutdown, lock, tiles, tile,
                   processed, mainVars>>

\* the worker going on to the pop after the wait without testing the flag
TaskWoken_noCheck ==
    /\ task_pc = "woken"
    /\ task_pc' = "lock"
    /\ UNCHANGED <<pipeVars, cache, createTile_ret, creatorVars, tile, processed, wakeups, mainVars>>

\* if (m_texture_tile_creator.shutdown) break;
TaskWoken ==
    /\ task_pc = "woken"
    /\ task_pc' = IF shutdown THEN "done" ELSE "lock"
    /\ UNCHANGED <<pipeVars, cache, createTile_ret, creatorVars, tile, processed, wakeups, mainVars>>

\* MT::SpinLock lock(m_texture_tile_creator.lock)
TaskLock ==
    /\ task_pc = "lock"
    /\ lock = "free"
    /\ lock' = "task"
    /\ task_pc' = "pop"
    /\ UNCHANGED <<pipeVars, cache, createTile_ret, shutdown, semaphore, tiles, tile,
                   processed, wakeups, mainVars>>

\* TaskPop with the lock's scope reaching over the rest of the loop body
TaskPop_keepLock ==
    /\ task_pc = "pop"
    /\ lock = "task"
    /\ tiles # <<>>
    /\ tile' = tiles[Len(tiles)]
    /\ tiles' = SubSeq(tiles, 1, Len(tiles) - 1)
    /\ task_pc' = "process"
    /\ UNCHANGED <<pipeVars, cache, createTile_ret, shutdown, lock, semaphore, processed,
                   wakeups, mainVars>>

\* tile = tiles.back(); tiles.pop(); and the end of the lock's scope.
\* back() of an empty Array is undefined: the thread crashes or goes on with garbage.
TaskPop ==
    /\ task_pc = "pop"
    /\ lock = "task"
    /\ IF tiles # <<>>
       THEN /\ tile' = tiles[Len(tiles)]
            /\ tiles' = SubSeq(tiles, 1, Len(tiles) - 1)
            /\ task_pc' = "process"
       ELSE /\ tiles' = tiles
            /\ \/ tile' = "garbage" /\ task_pc' = "process"
               \/ tile' = tile /\ task_pc' = "crashed"
    /\ lock' = "free"
    /\ UNCHANGED <<pipeVars, cache, createTile_ret, shutdown, semaphore, processed, wakeups, mainVars>>

\* what reading and decoding the source image yields, by the branch taken
SourceOutcomes(path) ==
    IF IsDDSPath(path) THEN {"open_failed", "decompress_failed", "decoded"}
    ELSE {"load_failed", "decoded"}

\* TaskProcess leaving the loop (break instead of continue) on a bad source
TaskProcess_break(source, saved) ==
    /\ task_pc = "process"
    /\ source \in SourceOutcomes(tile)
    /\ cache' = IF source # "decoded"
                THEN [cache EXCEPT ![Hash(tile)] = "placeholder"]
                ELSE IF saved THEN [cache EXCEPT ![Hash(tile)] = "tile"]
                ELSE cache
    /\ processed' = IF processed < MaxCount THEN processed + 1 ELSE processed
    /\ task_pc' = IF source # "decoded" THEN "done" ELSE "loop"
    /\ UNCHANGED <<pipeVars, createTile_ret, creatorVars, tile, wakeups, mainVars>>

\* the body of the loop after the pop: decode, resize, saveAsDDS
TaskProcess(source, saved) ==
    /\ task_pc = "process"
    /\ source \in SourceOutcomes(tile)
    /\ cache' = IF source # "decoded"
                THEN [cache EXCEPT ![Hash(tile)] = "placeholder"]
                ELSE IF saved THEN [cache EXCEPT ![Hash(tile)] = "tile"]
                ELSE cache
    /\ processed' = IF processed < MaxCount THEN processed + 1 ELSE processed
    /\ task_pc' = "loop"
    /\ UNCHANGED <<pipeVars, createTile_ret, creatorVars, tile, wakeups, mainVars>>

TaskNext ==
    \/ TaskLoop
    \/ TaskWait
    \/ TaskWoken
    \/ TaskLock
    \/ TaskPop
    \/ \E source \in {"open_failed", "decompress_failed", "load_failed", "decoded"},
          saved \in BOOLEAN : TaskProcess(source, saved)

(***************************************************************************)
(* ~ModelPlugin: stop the worker.                                         *)
(***************************************************************************)
\* ~ModelPlugin signalling before the flag is set
DtorShutdown_signalFirst ==
    /\ main_pc = "idle"
    /\ semaphore' = semaphore + 1
    /\ main_pc' = "dtor_signal"
    /\ UNCHANGED <<pipeVars, cache, createTile_ret, shutdown, lock, tiles, taskVars,
                   in_path, images, prefab_reqs>>

\* m_texture_tile_creator.shutdown = true
DtorShutdown ==
    /\ main_pc = "idle"
    /\ shutdown' = TRUE
    /\ main_pc' = "dtor_signal"
    /\ UNCHANGED <<pipeVars, cache, createTile_ret, lock, semaphore, tiles, taskVars,
                   in_path, images, prefab_reqs>>

\* ~ModelPlugin going on to task.destroy() without the signal
DtorSignal_missing ==
    /\ main_pc = "dtor_signal"
    /\ main_pc' = "dtor_destroy"
    /\ UNCHANGED <<pipeVars, cache, createTile_ret, shutdown, lock, semaphore, tiles,
                   taskVars, in_path, images, prefab_reqs>>

\* m_texture_tile_creator.semaphore.signal()
DtorSignal ==
    /\ main_pc = "dtor_signal"
    /\ semaphore' = semaphore + 1
    /\ main_pc' = "dtor_destroy"
    /\ UNCHANGED <<pipeVars, cache, createTile_ret, shutdown, lock, tiles, taskVars,
                   in_path, images, prefab_reqs>>

\* m_texture_tile_creator.task.destroy(): returns once the thread has ended
DtorDestroy ==
    /\ main_pc = "dtor_destroy"
    /\ task_pc = "done"
    /\ main_pc' = "destroyed"
    /\ UNCHANGED <<pipeVars, cache, createTile_ret, creatorVars, taskVars,
                   in_path, images, prefab_reqs>>

DtorNext == DtorShutdown \/ DtorSignal \/ DtorDestroy

CreateTileTextureNext ==
    \/ CreateTileEmplace
    \/ CreateTileSignal
    \/ CreateTileReturn

(***************************************************************************)
(* Specification of the texture-tile worker.                              *)
(***************************************************************************)
WorkerNext ==
    \/ \E a \in TextureAssets : images < MaxImages /\ CreateTile(a)
    \/ CreateTileTextureNext
    \/ TaskNext
    \/ DtorNext

WorkerSpec == NominalInit /\ [][WorkerNext]_vars

\* the operating system schedules the worker thread, and the main thread runs a
\* createTile call it has started to its end
WorkerFairSpec ==
    WorkerSpec /\ WF_vars(TaskNext) /\ WF_vars(CreateTileTextureNext)

\* the worker under Texture requests that never stop arriving: the main thread
\* submits whenever fewer than MaxQueued entries wait; the worker thread is
\* scheduled again and again and gets the spin lock each time it is released
StreamNext ==
    \/ \E a \in TextureAssets : Len(tiles) < MaxQueued /\ CreateTile(a)
    \/ CreateTileTextureNext
    \/ TaskNext

StreamSpec ==
    /\ NominalInit
    /\ [][StreamNext]_vars
    /\ SF_vars(TaskNext)
    /\ WF_vars(CreateTileTextureNext)

(***************************************************************************)
(* Specification of the whole plugin: every kind of createTile, update,   *)
(* the resource manager and the worker.                                   *)
(***************************************************************************)
RouterNext ==
    \/ \E a \in TextureAssets : images < MaxRouterImages /\ CreateTile(a)
    \/ CreateTileTextureNext
    \/ \E a \in CopyAssets \cup OtherAssets : CreateTile(a)
    \/ \E a \in RenderAssets : Len(writes) < MaxRouterReq /\ CreateTile(a)
    \/ \E saved \in BOOLEAN : Update(saved)
    \/ \E p \in ResPaths, st \in {"ready", "failure"} : ResourceLoaded(p, st)
    \/ TaskNext

RouterSpec == NominalInit /\ [][RouterNext]_vars

(***************************************************************************)
(* Specification of the render pipeline.                                  *)
(***************************************************************************)
PipeNext ==
    \/ \E a \in RenderAssets :
          /\ Len(writes) < MaxReq
          /\ a.type = "Prefab" => prefab_reqs < MaxPrefabReq
          /\ CreateTile(a)
    \/ \E saved \in BOOLEAN : Update(saved)
    \/ \E p \in ResPaths, st \in {"ready", "failure"} : ResourceLoaded(p, st)

Spec == Init /\ [][PipeNext]_vars

\* the pipeline on a machine where rendering itself cannot fail
NominalSpec == NominalInit /\ [][PipeNext]_vars

\* the pipeline under a burst of Model requests that fills the ring and puts
\* several requests on the overflow list
OverflowNext ==
    \/ \E a \in ModelAssets : Len(writes) < MaxOverflowReq /\ CreateTile(a)
    \/ \E saved \in BOOLEAN : Update(saved)
    \/ \E p \in ResPaths, st \in {"ready", "failure"} : ResourceLoaded(p, st)

OverflowSpec == NominalInit /\ [][OverflowNext]_vars

\* the pipeline with the model preview open: Model requests, update() and the
\* preview's "Save preview" on a model that is loaded
PreviewNext ==
    \/ \E a \in ModelAssets \cup SharedModelAssets :
          Len(writes) < MaxPreviewReq /\ CreateTile(a)
    \/ \E a \in ModelAssets \cup SharedModelAssets :
          Len(render_log) < MaxPreviewRenders /\ SavePreview(a.path)
    \/ \E saved \in BOOLEAN : Update(saved)
    \/ \E p \in ResPaths, st \in {"ready", "failure"} : ResourceLoaded(p, st)

PreviewSpec == NominalInit /\ [][PreviewNext]_vars

\* the pipeline when the model of the prefab is an asset of its own: Prefab
\* requests and Model requests for the prefab's model and for another model
SharedNext ==
    \/ \E a \in PrefabAssets \cup SharedModelAssets \cup ModelAssets :
          Len(writes) < MaxSharedReq /\ CreateTile(a)
    \/ \E saved \in BOOLEAN : Update(saved)
    \/ \E p \in ResPaths, st \in {"ready", "failure"} : ResourceLoaded(p, st)

SharedSpec == NominalInit /\ [][SharedNext]_vars

\* the pipeline with few requests; the editor calls update() every frame and the
\* resource manager finishes every load it has started
FairNext ==
    \/ \E a \in RenderAssets : Len(writes) < MaxLiveReq /\ CreateTile(a)
    \/ \E saved \in BOOLEAN : Update(saved)
    \/ \E p \in ResPaths, st \in {"ready", "failure"} : ResourceLoaded(p, st)

FairSpec ==
    /\ NominalInit
    /\ [][FairNext]_vars
    /\ WF_vars(\E saved \in BOOLEAN : Update(saved))
    /\ WF_vars(\E p \in ResPaths, st \in {"ready", "failure"} : ResourceLoaded(p, st))

(***************************************************************************)
(* Properties.                                                            *)
(***************************************************************************)
\* no read-back pending and no prefab entity in flight
PipelineEmpty == frame_countdown = -1 /\ m_entity_in_fly = "INVALID_ENTITY"

\* jobs of the pipeline, counted by the fields update() tests
InFlightJobs ==
    (IF frame_countdown >= 0 THEN 1 ELSE 0)
    + (IF m_entity_in_fly # "INVALID_ENTITY" THEN 1 ELSE 0)

InRing(r) == \E i \in 1..Len(queue) : queue[i].req = r
InOverflow(r) == \E i \in 1..Len(paths) : paths[i].req = r
Accepted(r) == r \in DOMAIN writes

\* request r was accepted and is neither waiting nor the job in flight
LeftPipeline(r) ==
    /\ Accepted(r)
    /\ ~InRing(r)
    /\ ~InOverflow(r)
    /\ ~(InFlightJobs > 0 /\ hash_req = r)

\* request r is done with: its tile was saved once, or it was dropped because its
\* resource failed to load
Processed(r) == Accepted(r) /\ (writes[r] = 1 \/ r \in dropped)

\* C1: every accepted Model/Prefab request is eventually rendered and its tile
\* written exactly once (a request whose resource failed to load counts as done
\* when it is dropped), and no request's tile is written twice.
C1_EveryRequestProcessedOnce ==
    /\ \A r \in 1..MaxLiveReq : [](Accepted(r) => <>Processed(r))
    /\ [](\A r \in DOMAIN writes : writes[r] <= 1)

\* an update() step that issues a render or puts a prefab entity in flight
UpdateStartsRender ==
    /\ \E saved \in BOOLEAN : Update(saved)
    /\ \/ render_log' # render_log
       \/ m_entity_in_fly' # m_entity_in_fly /\ m_entity_in_fly' # "INVALID_ENTITY"

\* C2: there is never more than one job in flight (a pending read-back countdown
\* or a prefab entity in flight), and update() starts a render only when there
\* is none.
C2_AtMostOneInFlight ==
    /\ [](InFlightJobs <= 1)
    /\ [][UpdateStartsRender => PipelineEmpty]_vars

C2_Witness ==
    /\ m_entity_in_fly # "INVALID_ENTITY"
    /\ queue # <<>>
    /\ ResIsReady(resources, Head(queue).path)

\* C3: the admission ring never holds more than N requests and the assertion of
\* pushTileQueue never fails.
C3_RingBounded == Len(queue) <= N /\ ~assert_fired

C3_Witness ==
    /\ Len(queue) = N
    /\ \E i \in 1..Len(queue) : queue[i].req > N
    /\ render_log # <<>>

\* a step that destroys the read-back texture (the finalize of update())
Finalize == live_textures' < live_textures

\* C4: the finalize step runs only after at least 2 update() calls have completed
\* since the render set frame_countdown to 2.
C4_FinalizeAfterTwoUpdates == [][Finalize => ticks >= 2]_vars

C4_Witness ==
    /\ frame_countdown = -1
    /\ \E r \in DOMAIN writes : writes[r] = 1

\* C5: createTile for a Model or Prefab returns true; with room in the ring it
\* starts the load and pushes the request into the ring, with a full ring it
\* appends the request to the overflow list and leaves the ring as it is.
C5_RenderRequestAccepted ==
    [][\A a \in RenderAssets :
         CreateTile(a) =>
           LET e == [path |-> a.path, req |-> Len(writes) + 1]
           IN /\ createTile_ret' = "true"
              /\ IF Len(queue) < N
                 THEN /\ queue' = Append(queue, e)
                      /\ resources'[a.path].ref = resources[a.path].ref + 1
                      /\ paths' = paths
                 ELSE /\ paths' = Append(paths, e)
                      /\ queue' = queue
                      /\ resources' = resources]_vars

C5_Witness ==
    /\ createTile_ret = "true"
    /\ Len(queue) = N
    /\ paths # <<>>

\* C6: createTile with a type that is none of Texture, Material, Shader, Model,
\* Prefab returns false and changes nothing else.
C6_OtherTypeRejected ==
    [][\A a \in OtherAssets :
         CreateTile(a) =>
           /\ createTile_ret' = "false"
           /\ UNCHANGED <<pipeVars, cache, creatorVars, taskVars, mainVars>>]_vars

C6_Witness ==
    /\ createTile_ret = "false"
    /\ queue # <<>>
    /\ tiles # <<>>
    /\ cache["h_m"] = "none"
    /\ cache["h_s"] = "none"

\* entries the worker has taken from the resize queue, and wake-ups it has consumed
Popped == processed + (IF task_pc = "process" THEN 1 ELSE 0)
Woken == Popped + (IF task_pc \in {"woken", "lock", "pop"} THEN 1 ELSE 0)

\* C7: a createTile call for a Texture returns true, has appended exactly one
\* entry to the resize queue and signalled the semaphore exactly once, both
\* while the main thread holds the lock, and no step of it changes the ring, the
\* overflow list or the in-flight tile state.
C7_TextureRequestQueued ==
    /\ [](/\ Len(tiles) + Popped = images - (IF main_pc = "emplace" THEN 1 ELSE 0)
          /\ semaphore + Woken
               = images - (IF main_pc \in {"emplace", "signal"} THEN 1 ELSE 0)
          /\ main_pc \in {"emplace", "signal", "return"} => lock = "main")
    /\ [][/\ (main_pc # "idle" \/ main_pc' # "idle") => UNCHANGED pipeVars
          /\ (Len(tiles') > Len(tiles) \/ semaphore' > semaphore) => lock = "main"
          /\ (main_pc = "return" /\ main_pc' = "idle") => createTile_ret' = "true"]_vars

C7_Witness ==
    /\ main_pc = "idle"
    /\ createTile_ret = "true"
    /\ tiles # <<>>
    /\ semaphore = Len(tiles)
    /\ frame_countdown >= 0

\* C8: when the worker cannot read or decode the source image it copies the
\* placeholder to the request's cache path and goes back to the head of its loop
\* with the queue and the pending wake-ups untouched; the thread ends only on
\* shutdown, and every enqueued request is processed unless shutdown is requested.
C8_BadImageGetsPlaceholder ==
    /\ [][\A source \in {"open_failed", "decompress_failed", "load_failed"} :
            TaskProcess(source, TRUE) =>
              /\ cache'[Hash(tile)] = "placeholder"
              /\ task_pc' = "loop"
              /\ tiles' = tiles
              /\ semaphore' = semaphore]_vars
    /\ [](task_pc \in {"done", "crashed"} => shutdown)
    /\ \A n \in 1..MaxImages : (images >= n) ~> (processed >= n \/ shutdown)

C8_Witness ==
    /\ cache["h_t"] = "placeholder"
    /\ cache["h_u"] = "tile"
    /\ processed >= 2
    /\ task_pc = "wait"
    /\ ~shutdown

\* C9: once a request has left the pipeline the handle loaded for it at admission
\* has been unloaded, and an empty pipeline has no transient entity and no
\* read-back texture left.
C9_EverythingReleased ==
    /\ \A r \in DOMAIN writes : LeftPipeline(r) => r \notin held
    /\ PipelineEmpty => live_entities = 0 /\ live_textures = 0

\* C10: a load failure of the head resource, or a prefab entity in flight whose
\* model does not become ready, never blocks the pipeline for good: it returns
\* to the empty state.
C10_NeverBlocked ==
    /\ (m_entity_in_fly # "INVALID_ENTITY") ~> PipelineEmpty
    /\ (queue # <<>> /\ ResIsFailure(resources, Head(queue).path)) ~> PipelineEmpty

\* saveAsDDS calls made so far for request r
WritesOf(r) == IF r \in DOMAIN writes THEN writes[r] ELSE 0

\* requests r1 and r2 name the same source path and neither tile is written yet
BothPending(r1, r2) ==
    /\ r1 \in DOMAIN writes /\ r2 \in DOMAIN writes
    /\ r1 # r2
    /\ req_paths[r1] = req_paths[r2]
    /\ writes[r1] = 0 /\ writes[r2] = 0

\* C11: when the same path has been submitted twice before its tile is written,
\* the cache file of that path's hash is written at most once for the two
\* requests together.
C11_DuplicateWritesOnce ==
    \A r1, r2 \in 1..MaxLiveReq :
        [](BothPending(r1, r2) => [](WritesOf(r1) + WritesOf(r2) <= 1))

\* C12: when saveAsDDS fails, the worker (after the resize) and update() (at the
\* finalize of a rendered tile) write the placeholder to the request's cache path.
C12_FailedEncodeGetsPlaceholder ==
    [][/\ TaskProcess("decoded", FALSE) => cache'[Hash(tile)] = "placeholder"
       /\ (Update(FALSE) /\ Finalize) => cache'[path_hash] = "placeholder"]_vars

InResizeQueue(p) == \E i \in 1..Len(tiles) : tiles[i] = p

\* the worker has popped a request for p and is processing it
BeingProcessed(p) == task_pc = "process" /\ tile = p

\* C13: every image request in the resize queue is eventually processed by the
\* worker, whatever requests arrive after it, as long as shutdown is not
\* requested and the worker is scheduled fairly.
C13_EveryImageProcessed ==
    \A p \in ImagePaths : InResizeQueue(p) ~> (BeingProcessed(p) \/ shutdown)

\* the destructor has set the shutdown flag and issued its signal
ShutdownSignalled == shutdown /\ main_pc \in {"dtor_destroy", "destroyed"}

\* C14: once the destructor has set the shutdown flag and signalled the
\* semaphore, the worker eventually leaves its loop and ends, wherever it was
\* (blocked in the wait, or popping or processing a request) and whatever the
\* resize queue holds.
C14_WorkerTerminates ==
    /\ ShutdownSignalled ~> (task_pc = "done")
    /\ (ShutdownSignalled /\ task_pc = "wait") ~> (task_pc = "done")
    /\ (ShutdownSignalled /\ task_pc = "process" /\ tiles # <<>>) ~> (task_pc = "done")

C14_Witness ==
    /\ main_pc = "destroyed"
    /\ task_pc = "done"
    /\ tiles # <<>>
    /\ processed > 0

\* the worker is between its semaphore wait and the matching pop
WorkerInWindow == task_pc \in {"woken", "lock", "pop"}

\* signals the destructor has issued
ShutdownSignals == IF main_pc \in {"dtor_destroy", "destroyed"} THEN 1 ELSE 0

\* wake-ups the worker answered by leaving the loop instead of popping
ExitedAfterWait == IF WorkerInWindow THEN 0 ELSE wakeups - Popped

\* C15: whenever the worker is not between its wait and the matching pop, the
\* semaphore count equals the length of the resize queue plus the shutdown
\* signals issued and not yet consumed.
C15_SemaphoreCountsQueue ==
    ~WorkerInWindow => semaphore = Len(tiles) + (ShutdownSignals - ExitedAfterWait)

\* C15 as amended: the same, in states where createTile is not between its
\* emplace and its signal either.
C15_SemaphoreCountsQueueOutsideCalls ==
    (~WorkerInWindow /\ main_pc # "signal")
        => semaphore = Len(tiles) + (ShutdownSignals - ExitedAfterWait)

C15_Witness ==
    /\ main_pc = "destroyed"
    /\ ExitedAfterWait = 1
    /\ tiles # <<>>
    /\ semaphore = Len(tiles)
    /\ processed > 0

IsPrefix(s, t) == Len(s) <= Len(t) /\ SubSeq(t, 1, Len(s)) = s

\* C16: the ring is FIFO: a step removes from the ring nothing but its front and
\* keeps the order of the others, and the request a step drops or takes for
\* rendering is the one that was at the front, whatever the state of the
\* resources behind it.
C16_RingIsFIFO ==
    [][/\ \/ IsPrefix(queue, queue')
          \/ queue # <<>> /\ IsPrefix(Tail(queue), queue')
       /\ \A i \in 1..Len(queue) :
             (\A j \in 1..Len(queue') : queue'[j].req # queue[i].req) => i = 1
       /\ dropped' # dropped =>
             queue # <<>> /\ dropped' = dropped \cup {Head(queue).req}
       /\ hash_req' # hash_req => queue # <<>> /\ hash_req' = Head(queue).req]_vars

C16_Witness ==
    /\ Len(queue) >= 2
    /\ ~ResIsReady(resources, queue[1].path)
    /\ ~ResIsFailure(resources, queue[1].path)
    /\ ResIsReady(resources, queue[2].path)
    /\ render_log # <<>>
    /\ PipelineEmpty

\* a step that takes an entry off the overflow list (the refill of popTileQueue)
Refill == Len(paths') < Len(paths)

\* C17: the overflow list is FIFO: a refill takes its oldest entry, the head, and
\* admits it at the back of the ring, so the entry submitted earlier is admitted
\* before the one submitted later.
C17_OverflowIsFIFO ==
    [][Refill => /\ paths' = Tail(paths)
                 /\ queue' # <<>>
                 /\ queue'[Len(queue')] = Head(paths)]_vars

\* request r has just been put on the overflow list (no request came after it)
JustOverflowed(r) == Len(writes) = r /\ InOverflow(r)

\* a render was issued for request r
Rendered(r) == \E i \in 1..Len(render_log) : render_log[i] = r

\* C18: a request put on the overflow list is rendered only after every request
\* that was in the ring when it was submitted has been rendered or dropped.
C18_OverflowAfterRing ==
    \A r, q \in 1..MaxOverflowReq :
        []((JustOverflowed(r) /\ InRing(q))
              => [](Rendered(r) => (Rendered(q) \/ q \in dropped)))

C18_Witness ==
    /\ Rendered(N + 2)
    /\ ~Rendered(N + 1)
    /\ \A q \in 1..N : Rendered(q)

\* a step that consumes the front slot of the ring
PopsFront ==
    /\ queue # <<>>
    /\ \A j \in 1..Len(queue') : queue'[j].req # Head(queue).req

\* entries of the overflow list that a step takes off it
TakenOffOverflow ==
    {paths[i] : i \in {k \in 1..Len(paths) :
                         \A j \in 1..Len(paths') : paths'[j].req # paths[k].req}}

\* C19: a step that consumes a slot of the ring while the overflow list is not
\* empty takes exactly one entry off the overflow list and admits it into the
\* ring in that same step, so the ring is as long as before; and while the
\* overflow list is not empty a createTile call never puts its request in the ring.
C19_RefillInSameStep ==
    [][/\ (PopsFront /\ paths # <<>>) =>
             /\ Cardinality(TakenOffOverflow) = 1
             /\ Len(paths') = Len(paths) - 1
             /\ Len(queue') = Len(queue)
             /\ queue'[Len(queue')] \in TakenOffOverflow
       /\ \A a \in RenderAssets :
             (CreateTile(a) /\ paths # <<>>) => queue' = queue]_vars

C19_Witness ==
    /\ Len(queue) = N
    /\ queue[N].req > N
    /\ Len(paths) >= 2
    /\ dropped # {}

\* the tile being read back belongs to a Model request
ModelTilePending ==
    /\ frame_countdown >= 0
    /\ hash_req \in DOMAIN writes
    /\ ~IsPrefabPath(req_paths[hash_req])

\* C20: for a Model request, once 2 update() calls have completed after the call
\* that rendered it and set frame_countdown to 2, its cache file has been written.
C20_WrittenAfterTwoUpdates ==
    (ModelTilePending /\ ticks >= 2) => writes[hash_req] >= 1

\* update() finds the pipeline empty and a front whose resource is still loading
FrontLoading ==
    /\ PipelineEmpty
    /\ queue # <<>>
    /\ ~ResIsReady(resources, Head(queue).path)
    /\ ~ResIsFailure(resources, Head(queue).path)

\* C21: when update() examines a front whose resource is neither ready nor
\* failed it changes nothing: ring, overflow list, countdown, entity in flight,
\* resources and cache stay as they are and no render is started, so the same
\* front is examined again by the next update().
C21_LoadingFrontWaits ==
    [][\A saved \in BOOLEAN :
         (FrontLoading /\ Update(saved)) =>
             /\ UNCHANGED <<tileVars, envVars, histVars, cache>>
             /\ FrontLoading']_vars

C21_Witness ==
    /\ FrontLoading
    /\ Len(queue) >= 2
    /\ ResIsReady(resources, queue[2].path)
    /\ paths # <<>>

\* update() finds the pipeline empty and a front whose resource failed to load
FrontFailed ==
    /\ PipelineEmpty
    /\ queue # <<>>
    /\ ResIsFailure(resources, Head(queue).path)

\* C22: when update() examines a front whose resource failed to load it removes
\* that request from the ring (refilling from the overflow list), starts no
\* render, writes no cache file and leaves the pipeline empty.
C22_FailedFrontDropped ==
    [][\A saved \in BOOLEAN :
         (FrontFailed /\ Update(saved)) =>
             /\ IsPrefix(Tail(queue), queue')
             /\ Len(queue') - Len(Tail(queue)) = Len(paths) - Len(paths')
             /\ Len(paths') = IF paths = <<>> THEN 0 ELSE Len(paths) - 1
             /\ dropped' = dropped \cup {Head(queue).req}
             /\ UNCHANGED <<render_log, writes, cache, live_textures, live_entities>>
             /\ PipelineEmpty']_vars

C22_Witness ==
    /\ PipelineEmpty
    /\ Cardinality(dropped) >= 2
    /\ \E i \in 1..Len(queue) : queue[i].req > N
    /\ render_log = <<>>

\* C23: while the read-back countdown is pending an update() call only
\* decrements it: it leaves the ring, the overflow list, the entity in flight
\* and every resource alone and starts no render; as long as the countdown
\* stays pending it also writes no file and destroys no texture.
C23_DrainingOnlyCounts ==
    [][\A saved \in BOOLEAN :
         (frame_countdown >= 0 /\ Update(saved)) =>
             /\ frame_countdown' = frame_countdown - 1
             /\ UNCHANGED <<queue, paths, m_entity_in_fly, path_hash, resources,
                            on_loaded, render_log, held, dropped, live_entities>>
             /\ frame_countdown > 0 => UNCHANGED <<cache, writes, live_textures>>]_vars

C23_Witness ==
    /\ frame_countdown = 0
    /\ ticks = 2
    /\ m_entity_in_fly = "INVALID_ENTITY"
    /\ queue # <<>>
    /\ ResIsReady(resources, Head(queue).path)
    /\ Len(queue) = N

\* C24: the update() call that finalizes a tile does nothing more: it neither
\* pops nor renders the next admitted request and leaves the pipeline empty, so
\* the next request starts in a later update() at the earliest.
C24_FinalizeEndsTheCall ==
    [][/\ \A saved \in BOOLEAN :
            (Update(saved) /\ Finalize) =>
                /\ UNCHANGED <<queue, paths, render_log, resources, live_entities>>
                /\ PipelineEmpty'
       /\ (PopsFront \/ render_log' # render_log) => ~Finalize]_vars

C24_Witness ==
    /\ PipelineEmpty
    /\ ticks = 0
    /\ hash_req \in DOMAIN writes
    /\ writes[hash_req] = 1
    /\ queue # <<>>
    /\ ResIsReady(resources, Head(queue).path)
    /\ Len(render_log) = 1

\* the main thread is inside createTile's locked block
ProducerInLock == main_pc \in {"emplace", "signal", "return"}

\* C25: the worker holds the lock only for reading and popping one entry, never
\* while it processes a request, so a createTile call made during processing
\* finds the lock free; producer and worker are never in their locked blocks
\* together.
C25_LockOnlyForPop ==
    /\ lock = "task" <=> task_pc = "pop"
    /\ lock = "main" <=> ProducerInLock
    /\ ~(ProducerInLock /\ task_pc = "pop")
    /\ (task_pc = "process" /\ main_pc = "idle") => lock = "free"

C25_Witness ==
    /\ task_pc = "process"
    /\ main_pc = "signal"
    /\ lock = "main"
    /\ Len(tiles) >= 2

\* C26: the worker never pops from an empty resize queue: once it has come back
\* from the wait and seen the shutdown flag false, the queue holds an entry when
\* it takes the lock and when it pops, whatever createTile and the destructor
\* do meanwhile.
C26_NeverPopsEmpty ==
    /\ task_pc \in {"lock", "pop"} => tiles # <<>>
    /\ task_pc # "crashed"
    /\ tile # "garbage"

C26_Witness ==
    /\ task_pc = "pop"
    /\ shutdown
    /\ main_pc = "dtor_destroy"
    /\ Len(tiles) = 1
    /\ processed > 0

\* C27: whenever the overflow list is not empty the ring is full.
C27_OverflowOnlyWhenFull == paths # <<>> => Len(queue) = N

C27_Witness ==
    /\ Len(paths) >= 2
    /\ Len(queue) = N
    /\ queue[N].req > N
    /\ frame_countdown >= 0

\* C28: with update(), createTile() and the preview's "Save preview"
\* interleaved, a render is issued only when no tile awaits its finalize, so no
\* render overwrites the texture handle, path hash or countdown of a pending
\* tile, and at most one read-back texture is alive: each is destroyed by its
\* own finalize.
C28_RendersNeverOverlap ==
    /\ [](live_textures <= 1)
    /\ [][render_log' # render_log =>
             (frame_countdown = -1 /\ live_textures = 0)]_vars

\* renders issued for request r
RenderCount(r) == Cardinality({i \in 1..Len(render_log) : render_log[i] = r})

\* C29: the second render stage runs at most once for each admitted prefab
\* request: the callbacks left bound on the prefab's model never render when no
\* prefab entity is in flight (such a render is logged as 0) and never issue a
\* second render for a request.
C29_SecondStageOnce ==
    /\ \A i \in 1..Len(render_log) : render_log[i] # 0
    /\ \A r \in DOMAIN writes : RenderCount(r) <= 1

\* the worker is where its next test of the flag decides (the loop condition, the
\* wait, the test after the wait) or has ended
BeforeFlagTest == task_pc \in {"loop", "wait", "woken", "done"}

\* C30: shutdown does not process pending work. Once the flag is set and the
\* worker is at or before a test of the flag, the resize queue and the cache
\* files never change again and no request is processed; from any state with
\* the flag set at most one more request (the one whose wake-up was consumed
\* before the flag was set) is processed.
C30_ShutdownLeavesPending ==
    /\ \A n \in 0..MaxImages : \A k \in 0..MaxCount :
          [](shutdown /\ BeforeFlagTest /\ Len(tiles) = n /\ processed = k
                => [](Len(tiles) = n /\ processed = k))
    /\ [][shutdown /\ BeforeFlagTest => cache' = cache /\ tiles' = tiles]_vars
    /\ \A k \in 0..MaxCount :
          [](shutdown /\ processed = k => [](processed <= k + 1))

\* the worker has ended after one processed request and left a request in the
\* resize queue whose cache file was never written
C30_Witness ==
    /\ main_pc = "destroyed"
    /\ task_pc = "done"
    /\ processed >= 1
    /\ tiles # <<>>
    /\ cache[Hash(tiles[1])] = "none"

=============================================================================
